---- MODULE Spec2Model ----
(***************************************************************************)
(* Model of panapi.config.PanObject (src/panapi/config/__init__.py): one   *)
(* resource entity `self`, one session collaborator `session`, and the     *)
(* five CRUD operations.  A JSON object (and an instance's __dict__) is a  *)
(* record [attrs, has_data, data]: attrs is the mapping of the scalar keys *)
(* id / name / folder, and the key "data" (an array of objects) is kept    *)
(* apart so that every value of the model has one type.                    *)
(***************************************************************************)
EXTENDS Integers, Sequences, FiniteSets, TLC

VARIABLES self, session, op, repeated, calls, request, ret, raised, printed

vars == <<self, session, op, repeated, calls, request, ret, raised, printed>>

\* ---------------------------------------------------------------- bounds
MaxData == 2

\* ------------------------------------------------------------- constants
base_url == "https://api.sase.paloaltonetworks.com"
endpoint == "/sse/config/v1/addresses"
Limit == 5000
HTTP_OK == 200
HTTP_CREATED == 201
None == "<None>"

\* ---------------------------------------------------------------- values
Keys == {"id", "name", "folder"}
AttrVals(k) == CASE k = "id" -> {"x", "z"}
                 [] k = "name" -> {"y"}
                 [] k = "folder" -> {"F"}
AllVals == UNION {AttrVals(k) : k \in Keys}
EmptyDict == [k \in {} |-> ""]
DictsOver(D) == {f \in [D -> AllVals] : \A k \in D : f[k] \in AttrVals(k)}
Configs == UNION {DictsOver(D) : D \in SUBSET Keys}
Items == [{"name"} -> {"y", "w"}]
DataArrays == UNION {[1..n -> Items] : n \in 0..MaxData}

Obj(a, hd, d) == [attrs |-> a, has_data |-> hd, data |-> d]
EmptyObj == Obj(EmptyDict, FALSE, <<>>)
BodyConfigs == UNION {DictsOver(D) : D \in SUBSET {"id", "name"}}
Bodies == {Obj(c, FALSE, <<>>) : c \in BodyConfigs}
            \cup {Obj(EmptyDict, TRUE, d) : d \in DataArrays}

NoResponse == [status_code |-> 0, body |-> EmptyObj]
\* a response is a status code and a body that .json() decodes to an object;
\* the body of a 404 is never decoded, so one body stands for all of them
Responses == {[status_code |-> s, body |-> b] :
                 s \in {HTTP_OK, HTTP_CREATED}, b \in Bodies}
               \cup {[status_code |-> 404, body |-> EmptyObj]}
\* what a session verb does: raise, or return a response
Transport == {[raises |-> TRUE, response |-> NoResponse]}
               \cup {[raises |-> FALSE, response |-> r] : r \in Responses}

NoRequest == [verb |-> "none", url |-> <<>>, params |-> EmptyDict,
              headers |-> EmptyDict, has_json |-> FALSE, json |-> EmptyObj]
RetNone == [kind |-> "None", inst |-> EmptyObj, list |-> <<>>]
RetInst(o) == [kind |-> "instance", inst |-> o, list |-> <<>>]
RetList(l) == [kind |-> "list", inst |-> EmptyObj, list |-> l]

\* ------------------------------------------------------- pure functions
\* PanObject.__init__(**kwargs): the keyword arguments become the attributes
PanObject(kwargs) == Obj([k \in DOMAIN kwargs.attrs |-> kwargs.attrs[k]],
                         kwargs.has_data, kwargs.data)

hasattr(o, k) == k \in DOMAIN o.attrs

\* "{}".format(v)
Format(v) == IF v = None THEN "None" ELSE v

\* dict.get(k): the value, or None when the key is absent
Get(d, k) == IF k \in DOMAIN d.attrs THEN d.attrs[k] ELSE None

\* self.k = v
SetAttr(o, k, v) ==
    [o EXCEPT !.attrs = [j \in DOMAIN o.attrs \cup {k} |->
                            IF j = k THEN v ELSE o.attrs[j]]]

\* the payload property: a comprehension over every item of __dict__
payload(o) == Obj([k \in DOMAIN o.attrs |-> o.attrs[k]], o.has_data, o.data)

\* params of create / read / update / delete
FolderParams(o) == IF hasattr(o, "folder")
                   THEN [k \in {"folder"} |-> o.attrs.folder]
                   ELSE EmptyDict

\* variant: the limit is left out of list's params
ListParams_nolimit(o) == IF hasattr(o, "folder")
                         THEN [k \in {"folder"} |-> o.attrs.folder]
                         ELSE EmptyDict

\* params of list
ListParams(o) == IF hasattr(o, "folder")
                 THEN [folder |-> o.attrs.folder, limit |-> Limit]
                 ELSE EmptyDict

\* params.update({"name": self.name})
WithName(p, o) == [k \in DOMAIN p \cup {"name"} |->
                      IF k = "name" THEN o.attrs.name ELSE p[k]]

CollectionUrl == <<base_url, endpoint>>
ObjectUrl(o) == <<base_url, endpoint, "/", Format(o.attrs.id)>>

JsonHeaders == [k \in {"Content-Type"} |-> "application/json"]

\* variant: the validity check is inverted
EnsureSession_inverted ==
    IF ~session.is_expired THEN <<"reauthenticate">> ELSE <<>>

\* if session.is_expired: session.reauthenticate()
EnsureSession == IF session.is_expired THEN <<"reauthenticate">> ELSE <<>>

\* the session after the validity check and the verb's outcome t
SessionAfter(t) ==
    [is_expired |-> FALSE,
     response |-> IF t.raises THEN session.response ELSE t.response]

Req(v, u, p, h, hj, j) ==
    [verb |-> v, url |-> u, params |-> p, headers |-> h,
     has_json |-> hj, json |-> j]

Init ==
    /\ self \in {PanObject(Obj(c, FALSE, <<>>)) : c \in Configs}
    /\ session \in {[is_expired |-> e, response |-> NoResponse] : e \in BOOLEAN}
    /\ op = "init"
    /\ repeated = FALSE
    /\ calls = <<>>
    /\ request = NoRequest
    /\ ret = RetNone
    /\ raised = "none"
    /\ printed = FALSE

\* ------------------------------------------------------------ operations
\* variant: the id is taken from any response, whatever its status
create_anystatus ==
    \E t \in Transport :
      /\ op' = "create"
      /\ repeated' = (op = "create")
      /\ calls' = Append(EnsureSession, "post")
      /\ request' = Req("post", CollectionUrl, FolderParams(self),
                        JsonHeaders, TRUE, payload(self))
      /\ session' = SessionAfter(t)
      /\ printed' = t.raises
      /\ ret' = RetNone
      /\ IF ~t.raises
         THEN self' = SetAttr(self, "id", Get(t.response.body, "id"))
         ELSE self' = self
      /\ raised' = "none"

create ==
    \E t \in Transport :
      /\ op' = "create"
      /\ repeated' = (op = "create")
      /\ calls' = Append(EnsureSession, "post")
      /\ request' = Req("post", CollectionUrl, FolderParams(self),
                        JsonHeaders, TRUE, payload(self))
      /\ session' = SessionAfter(t)
      /\ printed' = t.raises
      /\ ret' = RetNone
      /\ IF ~t.raises /\ t.response.status_code = HTTP_CREATED
         THEN self' = SetAttr(self, "id", Get(t.response.body, "id"))
         ELSE self' = self
      /\ raised' = "none"

\* the operation stops with an exception err before any verb is invoked
RaiseBeforeRequest(name, err) ==
    /\ op' = name
    /\ repeated' = (op = name)
    /\ calls' = EnsureSession
    /\ request' = NoRequest
    /\ session' = [session EXCEPT !.is_expired = FALSE]
    /\ printed' = FALSE
    /\ ret' = RetNone
    /\ raised' = err
    /\ self' = self

\* variant: name is tried before id
has_id_afterName(o) == hasattr(o, "id") /\ ~hasattr(o, "name")

\* has_id = hasattr(self, "id"), has_name = hasattr(self, "name")
has_id(o) == hasattr(o, "id")
has_name(o) == hasattr(o, "name")

\* variant: the else branch is never taken
NoIdentifier_never(o) == FALSE

\* read's else branch: neither id nor name is an attribute
NoIdentifier(o) == ~hasattr(o, "id") /\ ~hasattr(o, "name")

read ==
    LET url == IF has_id(self) THEN ObjectUrl(self) ELSE CollectionUrl
        params == IF ~has_id(self) /\ has_name(self)
                  THEN WithName(FolderParams(self), self)
                  ELSE FolderParams(self)
    IN  IF NoIdentifier(self)
        THEN RaiseBeforeRequest("read", "ValueError")
        ELSE \E t \in Transport :
               /\ op' = "read"
               /\ repeated' = (op = "read")
               /\ calls' = Append(EnsureSession, "get")
               /\ request' = Req("get", url, params, EmptyDict, FALSE, EmptyObj)
               /\ session' = SessionAfter(t)
               /\ printed' = t.raises
               /\ self' = self
               /\ IF ~t.raises /\ t.response.status_code = HTTP_OK
                  THEN LET result == t.response.body IN
                       IF has_id(self)
                       THEN raised' = "none" /\ ret' = RetInst(PanObject(result))
                       ELSE IF ~has_name(self)
                       THEN raised' = "none" /\ ret' = RetNone
                       ELSE IF ~result.has_data
                       THEN raised' = "KeyError" /\ ret' = RetNone
                       ELSE IF Len(result.data) = 0
                       THEN raised' = "IndexError" /\ ret' = RetNone
                       ELSE /\ raised' = "none"
                            /\ ret' = RetInst(PanObject(Obj(result.data[1],
                                                            FALSE, <<>>)))
                  ELSE raised' = "none" /\ ret' = RetNone

list ==
    \E t \in Transport :
      /\ op' = "list"
      /\ repeated' = (op = "list")
      /\ calls' = Append(EnsureSession, "get")
      /\ request' = Req("get", CollectionUrl, ListParams(self),
                        EmptyDict, FALSE, EmptyObj)
      /\ session' = SessionAfter(t)
      /\ printed' = t.raises
      /\ self' = self
      /\ IF ~t.raises /\ t.response.status_code = HTTP_OK
         THEN LET result == t.response.body IN
              IF ~result.has_data
              THEN raised' = "KeyError" /\ ret' = RetNone
              ELSE /\ raised' = "none"
                   /\ ret' = RetList([i \in 1..Len(result.data) |->
                                PanObject(Obj(result.data[i], FALSE, <<>>))])
         ELSE raised' = "none" /\ ret' = RetNone

\* variant: update stores the id of a 200 response, as create does
update_storesid ==
    \E t \in Transport :
      /\ op' = "update"
      /\ repeated' = (op = "update")
      /\ calls' = Append(EnsureSession, "put")
      /\ request' = Req("put",
                        IF hasattr(self, "id") THEN ObjectUrl(self)
                                               ELSE CollectionUrl,
                        FolderParams(self), JsonHeaders, TRUE, payload(self))
      /\ session' = SessionAfter(t)
      /\ printed' = t.raises
      /\ self' = IF ~t.raises /\ t.response.status_code = HTTP_OK
                 THEN SetAttr(self, "id", Get(t.response.body, "id"))
                 ELSE self
      /\ ret' = RetNone
      /\ raised' = "none"

update ==
    \E t \in Transport :
      /\ op' = "update"
      /\ repeated' = (op = "update")
      /\ calls' = Append(EnsureSession, "put")
      /\ request' = Req("put",
                        IF hasattr(self, "id") THEN ObjectUrl(self)
                                               ELSE CollectionUrl,
                        FolderParams(self), JsonHeaders, TRUE, payload(self))
      /\ session' = SessionAfter(t)
      /\ printed' = t.raises
      /\ self' = self
      /\ ret' = RetNone
      /\ raised' = "none"

\* variant: without id, delete falls back to the collection url as update does
delete_fallback ==
    \E t \in Transport :
      /\ op' = "delete"
      /\ repeated' = (op = "delete")
      /\ calls' = Append(EnsureSession, "delete")
      /\ request' = Req("delete",
                        IF hasattr(self, "id") THEN ObjectUrl(self)
                                               ELSE CollectionUrl,
                        FolderParams(self), JsonHeaders, FALSE, EmptyObj)
      /\ session' = SessionAfter(t)
      /\ printed' = t.raises
      /\ self' = self
      /\ ret' = RetNone
      /\ raised' = "none"

delete ==
    IF ~hasattr(self, "id")
    THEN RaiseBeforeRequest("delete", "AttributeError")
    ELSE \E t \in Transport :
           /\ op' = "delete"
           /\ repeated' = (op = "delete")
           /\ calls' = Append(EnsureSession, "delete")
           /\ request' = Req("delete", ObjectUrl(self), FolderParams(self),
                             JsonHeaders, FALSE, EmptyObj)
           /\ session' = SessionAfter(t)
           /\ printed' = t.raises
           /\ self' = self
           /\ ret' = RetNone
           /\ raised' = "none"

\* the session's token runs out between two operations
SessionExpires ==
    /\ ~session.is_expired
    /\ session' = [session EXCEPT !.is_expired = TRUE]
    /\ UNCHANGED <<self, op, repeated, calls, request, ret, raised, printed>>

Next == create \/ read \/ list \/ update \/ delete \/ SessionExpires

Spec == Init /\ [][Next]_vars

\* ---------------------------------------------------------------- claims
Ops == {"create", "read", "list", "update", "delete"}

\* a step in which the session's token runs out (no operation is called)
ExpiryStep == ~session.is_expired /\ session'.is_expired

\* a step that is a call of operation o
OpStep(o) == op' = o /\ ~ExpiryStep

Count(seq, x) == Cardinality({i \in DOMAIN seq : seq[i] = x})

\* the response of the last operation is the one it received itself
Received == ~printed /\ request.verb # "none"
Success(code) == Received /\ session.response.status_code = code

\* C1: whenever create or update has sent its request for an entity that has
\* folder, the request carries folder as a query parameter and the JSON body
\* has no key folder.
C1_FolderNeverInBody ==
    (op \in {"create", "update"} /\ hasattr(self, "folder")) =>
        /\ "folder" \in DOMAIN request.params
        /\ request.params.folder = self.attrs.folder
        /\ request.has_json
        /\ "folder" \notin DOMAIN request.json.attrs

\* C2: a create on an entity without id sets id to the id field of a 201
\* response's JSON body; on any other status, or when the transport raises,
\* the entity is exactly what it was (no id, no attribute changed).
C2_CreateSetsIdOnlyOn201 ==
    [][(OpStep("create") /\ ~hasattr(self, "id")) =>
         LET r == session'.response IN
         /\ (/\ ~printed'
             /\ r.status_code = HTTP_CREATED
             /\ hasattr(r.body, "id"))
               => (hasattr(self', "id") /\ self'.attrs.id = r.body.attrs.id)
         /\ (printed' \/ r.status_code # HTTP_CREATED)
               => (self' = self /\ ~hasattr(self', "id"))]_vars

\* C2 witness: a create of an entity that had no id (its body has none) got
\* a 201 with an id, and the entity now has that id.
C2_Witness ==
    /\ op = "create"
    /\ ~hasattr(request.json, "id")
    /\ Success(HTTP_CREATED)
    /\ hasattr(session.response.body, "id")
    /\ hasattr(self, "id")
    /\ self.attrs.id = session.response.body.attrs.id

\* C3: read targets by id before name.  With id x (with or without name):
\* one GET to base + endpoint + "/x", no name parameter, and on 200 the
\* returned instance is the whole JSON body.  With name y and no id: one GET
\* to base + endpoint with name = y, and on 200 the returned instance is
\* data[0] of the response (when the response has a data[0]).
C3_ReadTargetsIdBeforeName ==
    op = "read" =>
      /\ hasattr(self, "id") =>
           /\ Count(calls, "get") = 1
           /\ request.verb = "get"
           /\ request.url = <<base_url, endpoint, "/", Format(self.attrs.id)>>
           /\ "name" \notin DOMAIN request.params
           /\ Success(HTTP_OK) =>
                /\ raised = "none"
                /\ ret.kind = "instance"
                /\ ret.inst = session.response.body
      /\ (~hasattr(self, "id") /\ hasattr(self, "name")) =>
           /\ Count(calls, "get") = 1
           /\ request.verb = "get"
           /\ request.url = <<base_url, endpoint>>
           /\ "name" \in DOMAIN request.params
           /\ request.params.name = self.attrs.name
           /\ (/\ Success(HTTP_OK)
               /\ session.response.body.has_data
               /\ Len(session.response.body.data) >= 1) =>
                /\ raised = "none"
                /\ ret.kind = "instance"
                /\ ret.inst.attrs = session.response.body.data[1]
                /\ ~ret.inst.has_data

\* C3 witness: an entity with both id and name was read by id and the whole
\* body came back as the instance.
C3_Witness ==
    /\ op = "read"
    /\ hasattr(self, "id") /\ hasattr(self, "name")
    /\ Success(HTTP_OK)
    /\ ret.kind = "instance"
    /\ ret.inst = session.response.body
    /\ hasattr(ret.inst, "id") /\ ret.inst.attrs.id # self.attrs.id

\* C4: a read on an entity with neither id nor name raises ValueError, issues
\* no session.get and leaves session.response as it was.
C4_ReadNeedsIdentifier ==
    [][(OpStep("read") /\ ~hasattr(self, "id") /\ ~hasattr(self, "name")) =>
         /\ raised' = "ValueError"
         /\ request' = NoRequest
         /\ Count(calls', "get") = 0
         /\ session'.response = session.response]_vars

\* C4 witness: such a read happened after an earlier operation had stored a
\* response.
C4_Witness ==
    /\ op = "read"
    /\ raised = "ValueError"
    /\ ~hasattr(self, "id") /\ ~hasattr(self, "name")
    /\ session.response # NoResponse

\* C5: list on an entity with folder F sends exactly {folder: F, limit: 5000};
\* on 200 (with a data array) it returns one instance per element of data, in
\* response order, with the element's attributes; on another status or a
\* transport failure it returns nothing.
C5_ListWithFolder ==
    (op = "list" /\ hasattr(self, "folder")) =>
      /\ request.verb = "get"
      /\ DOMAIN request.params = {"folder", "limit"}
      /\ request.params.folder = self.attrs.folder
      /\ request.params.limit = 5000
      /\ (Success(HTTP_OK) /\ session.response.body.has_data) =>
           /\ raised = "none"
           /\ ret.kind = "list"
           /\ Len(ret.list) = Len(session.response.body.data)
           /\ \A i \in 1..Len(session.response.body.data) :
                /\ ret.list[i].attrs = session.response.body.data[i]
                /\ ~ret.list[i].has_data
      /\ (printed \/ session.response.status_code # HTTP_OK) =>
           (ret = RetNone /\ raised = "none")

\* C5 witness: a list with folder returned two instances that differ, in the
\* order of the response.
C5_Witness ==
    /\ op = "list"
    /\ hasattr(self, "folder")
    /\ Success(HTTP_OK)
    /\ ret.kind = "list"
    /\ Len(ret.list) >= 2
    /\ ret.list[1] # ret.list[2]

\* C6: every GET issued by list carries limit = 5000, also for an entity that
\* has no folder.
C6_ListAlwaysLimited ==
    (op = "list" /\ request.verb = "get") =>
        /\ "limit" \in DOMAIN request.params
        /\ request.params.limit = 5000

C8_OnlyReadPreconditionRaised ==
    raised # "none" =>
        /\ op = "read"
        /\ raised = "ValueError"
        /\ ~hasattr(self, "id") /\ ~hasattr(self, "name")

\* C9: two updates in a row send the same PUT request (url, params, headers,
\* body), whatever the first one received.
C9_UpdateIdempotent ==
    [][(op = "update" /\ OpStep("update")) => request' = request]_vars

\* C9 witness: an update of an entity with id followed another update of it.
C9_Witness ==
    /\ op = "update"
    /\ repeated
    /\ request.verb = "put"
    /\ hasattr(self, "id")

\* C10: an operation that finds the session expired calls reauthenticate()
\* exactly once and before its HTTP verb; one that finds it valid does not
\* call reauthenticate().
C10_SessionCheckFirst ==
    [][(~ExpiryStep /\ op' \in Ops) =>
         IF session.is_expired
         THEN /\ Len(calls') >= 1
              /\ calls'[1] = "reauthenticate"
              /\ Count(calls', "reauthenticate") = 1
         ELSE Count(calls', "reauthenticate") = 0]_vars

\* C10 witness: an operation reauthenticated and then sent its request.
C10_Witness ==
    /\ op \in Ops
    /\ Len(calls) = 2
    /\ calls[1] = "reauthenticate"
    /\ calls[2] \in {"get", "post", "put", "delete"}
    /\ request.verb = calls[2]
====
